---- MODULE Spec2Model ----
(***************************************************************************)
(* Model of app.py: the paginated Notion fetch (fetch_notion_df), the      *)
(* property-value extraction (_get_prop_val) and the module-level refresh  *)
(* flow (config guard, fetch, empty check, coercion, aggregation, chart).  *)
(*                                                                         *)
(* Python values are tagged records: None, numbers, strings (sequences of  *)
(* one-character strings), booleans, lists and dicts.  pandas' missing     *)
(* values NaN and NaT are values of their own.                             *)
(***************************************************************************)
EXTENDS Integers, Sequences, FiniteSets, TLC

(* ---------- bounds of the model ---------- *)
\* largest number of records the simulated database holds
MaxRecords == 3
\* largest number of records of the longer databases, which hold the three
\* records of the worked aggregation example only
MaxLongRecords == 5
\* records per page served by the simulated API (the API's page limit,
\* 100 in app.py's request, scaled down)
PageSize == 2
\* how many empty pages with has_more = true the simulated API may serve
MaxEmptyPages == 2

(* ---------- Python values ---------- *)
None == [k |-> "none"]
NaN == [k |-> "nan"]
NaT == [k |-> "nat"]
Unassigned == [k |-> "unassigned"]
Num(n) == [k |-> "num", n |-> n]
Str(s) == [k |-> "str", s |-> s]
Bool(b) == [k |-> "bool", b |-> b]
List(items) == [k |-> "list", items |-> items]
Dict(d) == [k |-> "dict", d |-> d]
Timestamp(y, m, d) == [k |-> "date", y |-> y, m |-> m, d |-> d]

\* Python truthiness of the values a property payload can be
Truthy(v) ==
    CASE v.k = "none" -> FALSE
      [] v.k = "dict" -> DOMAIN v.d # {}
      [] v.k = "list" -> v.items # <<>>
      [] v.k = "str" -> v.s # <<>>
      [] v.k = "num" -> v.n # 0
      [] v.k = "bool" -> v.b

\* pd.isna / pd.isnull
IsNull(v) == v.k \in {"none", "nan", "nat"}

(* ---------- Notion helpers ---------- *)
RECURSIVE JoinPlain(_)
JoinPlain(frags) ==
    IF frags = <<>> THEN <<>>
    ELSE (IF "plain_text" \in DOMAIN Head(frags).d
          THEN Head(frags).d.plain_text.s ELSE <<>>) \o JoinPlain(Tail(frags))

\* "".join([t.get("plain_text","") for t in (rich or [])])
_plain_text(rich) == Str(JoinPlain(IF Truthy(rich) THEN rich.items ELSE <<>>))

\* the order app.py probes a formula result in
FormulaKeys == <<"number", "string", "date", "boolean">>

\* a formula result probed by the populated value instead of the key
FirstPopulatedKey(v) ==
    LET hits == {i \in 1..Len(FormulaKeys) :
                    /\ FormulaKeys[i] \in DOMAIN v.d
                    /\ ~IsNull(v.d[FormulaKeys[i]])}
    IN IF hits = {} THEN 0 ELSE CHOOSE i \in hits : \A j \in hits : i <= j

\* index in FormulaKeys of the first key the dict v carries, 0 if none
FirstFormulaKey(v) ==
    LET hits == {i \in 1..Len(FormulaKeys) : FormulaKeys[i] \in DOMAIN v.d}
    IN IF hits = {} THEN 0 ELSE CHOOSE i \in hits : \A j \in hits : i <= j

_get_prop_val(p) ==
    LET t == p.type
        v == p[t]
    IN IF t \in {"title", "rich_text"} THEN _plain_text(v)
       ELSE IF t = "number" THEN v
       ELSE IF t = "select" THEN (IF Truthy(v) THEN v.d.name ELSE None)
       ELSE IF t = "date" THEN (IF Truthy(v) THEN v.d.start ELSE None)
       ELSE IF t = "formula" /\ FirstFormulaKey(v) # 0
            THEN v.d[FormulaKeys[FirstFormulaKey(v)]]
       ELSE v

(* ---------- strings ---------- *)
Digits == <<"0", "1", "2", "3", "4", "5", "6", "7", "8", "9">>

IsDigit(c) == \E i \in 1..10 : Digits[i] = c

DigitVal(c) == (CHOOSE i \in 1..10 : Digits[i] = c) - 1

RECURSIVE NatToChars(_)
NatToChars(n) ==
    IF n < 10 THEN <<Digits[n + 1]>>
    ELSE NatToChars(n \div 10) \o <<Digits[(n % 10) + 1]>>

\* str(n) of a Python int
IntToChars(n) == IF n < 0 THEN <<"-">> \o NatToChars(0 - n) ELSE NatToChars(n)

RECURSIVE CharsToNat(_)
CharsToNat(s) ==
    IF s = <<>> THEN 0
    ELSE 10 * CharsToNat(SubSeq(s, 1, Len(s) - 1)) + DigitVal(s[Len(s)])

AllDigits(s) == s # <<>> /\ \A i \in 1..Len(s) : IsDigit(s[i])

\* Series.str.replace(c, "", regex=False) on one cell
RECURSIVE StripChar(_, _)
StripChar(s, c) ==
    IF s = <<>> THEN <<>>
    ELSE (IF Head(s) = c THEN <<>> ELSE <<Head(s)>>) \o StripChar(Tail(s), c)

(* ---------- pandas ---------- *)
\* Series.astype(str) on one cell of an object column
AsStr(v) ==
    CASE v.k = "str" -> v.s
      [] v.k = "num" -> IntToChars(v.n)
      [] v.k = "none" -> <<"N", "o", "n", "e">>
      [] v.k = "nan" -> <<"n", "a", "n">>
      [] v.k = "bool" -> IF v.b THEN <<"T", "r", "u", "e">>
                         ELSE <<"F", "a", "l", "s", "e">>

\* pd.to_numeric(errors="coerce") on one string: an optionally signed run
\* of digits is its number, anything else NaN (the modelled tables carry
\* whole amounts, so no decimal point is read)
ToNumeric(s) ==
    LET body == IF s # <<>> /\ Head(s) \in {"-", "+"} THEN Tail(s) ELSE s
    IN IF ~AllDigits(body) THEN NaN
       ELSE IF Head(s) = "-" THEN Num(0 - CharsToNat(body))
       ELSE Num(CharsToNat(body))

IsLeap(y) == (y % 4 = 0 /\ y % 100 # 0) \/ y % 400 = 0

DaysIn(y, m) ==
    IF m = 2 THEN (IF IsLeap(y) THEN 29 ELSE 28)
    ELSE IF m \in {4, 6, 9, 11} THEN 30 ELSE 31

\* pd.to_datetime(errors="coerce") on one cell: an ISO calendar date
\* YYYY-MM-DD (what Notion puts in a date's start) is its timestamp; a
\* missing value or any other text is NaT
ToDatetime(v) ==
    CASE IsNull(v) -> NaT
      [] v.k = "str" ->
            LET s == v.s IN
            IF /\ Len(s) = 10
               /\ s[5] = "-" /\ s[8] = "-"
               /\ AllDigits(SubSeq(s, 1, 4))
               /\ AllDigits(SubSeq(s, 6, 7))
               /\ AllDigits(SubSeq(s, 9, 10))
            THEN LET y == CharsToNat(SubSeq(s, 1, 4))
                     m == CharsToNat(SubSeq(s, 6, 7))
                     d == CharsToNat(SubSeq(s, 9, 10))
                 IN IF m \in 1..12 /\ d >= 1 /\ d <= DaysIn(y, m)
                    THEN Timestamp(y, m, d) ELSE NaT
            ELSE NaT

\* order of two timestamps
DateLess(a, b) ==
    \/ a.y < b.y
    \/ a.y = b.y /\ a.m < b.m
    \/ a.y = b.y /\ a.m = b.m /\ a.d < b.d

\* the column c of a list of dicts holds numbers and missing values only,
\* so pandas makes it a float column
IsNumericColumn(rs, c) ==
    /\ \A i \in 1..Len(rs) : c \in DOMAIN rs[i] => rs[i][c].k \in {"num", "none"}
    /\ \E i \in 1..Len(rs) : c \in DOMAIN rs[i] /\ rs[i][c].k = "num"

\* pd.DataFrame(rows) of a list of dicts: the columns are the keys seen in
\* any row, a row lacking a key holds NaN there, and a None in a float
\* column is stored as NaN
DataFrame(rs) ==
    LET cols == UNION {DOMAIN rs[i] : i \in 1..Len(rs)}
    IN [columns |-> cols,
        data |-> [i \in 1..Len(rs) |->
                    [c \in cols |->
                        IF c \notin DOMAIN rs[i] THEN NaN
                        ELSE IF rs[i][c] = None /\ IsNumericColumn(rs, c) THEN NaN
                        ELSE rs[i][c]]]]

\* DataFrame.empty: no rows or no columns
Empty(df) == Len(df.data) = 0 \/ df.columns = {}

\* Series.dtype == object: the column is neither all numbers (with missing
\* values) nor all booleans
IsObjectDtype(df, c) ==
    LET kinds == {df.data[i][c].k : i \in 1..Len(df.data)}
    IN ~ \/ (kinds \subseteq {"num", "none", "nan"} /\ "num" \in kinds)
         \/ kinds = {"bool"}

\* line 67: pnl_df["Expiration"] = pd.to_datetime(pnl_df["Expiration"], ...)
CoerceExpiration(df) ==
    [df EXCEPT !.data = [i \in 1..Len(df.data) |->
        [df.data[i] EXCEPT !["Expiration"] = ToDatetime(df.data[i]["Expiration"])]]]

\* lines 69-72 on one cell: the text without "," and "$", read as a number
ParseMoney(v) == ToNumeric(StripChar(StripChar(AsStr(v), ","), "$"))

\* lines 69-72: pnl_df["Profit/Loss"] = pd.to_numeric(...)
CoerceProfitLoss(df) ==
    [df EXCEPT !.data = [i \in 1..Len(df.data) |->
        [df.data[i] EXCEPT !["Profit/Loss"] = ParseMoney(df.data[i]["Profit/Loss"])]]]

\* DataFrame.dropna(subset=[c]): the rows whose cell in c is not missing
DropNa(df, c) ==
    LET Present(r) == ~IsNull(r[c])
    IN [df EXCEPT !.data = SelectSeq(df.data, Present)]

\* a sum that a missing value turns into NaN (skipna=False)
RECURSIVE SumPropagating(_)
SumPropagating(cells) ==
    IF cells = <<>> THEN Num(0)
    ELSE LET rest == SumPropagating(Tail(cells))
         IN IF IsNull(Head(cells)) \/ IsNull(rest) THEN NaN
            ELSE Num(Head(cells).n + rest.n)

\* Series.sum() of one group: missing values are skipped, an empty sum is 0
RECURSIVE SumSkipNa(_)
SumSkipNa(cells) ==
    IF cells = <<>> THEN Num(0)
    ELSE LET h == Head(cells)
             rest == SumSkipNa(Tail(cells)).n
         IN Num(rest + (CASE IsNull(h) -> 0
                          [] h.k = "num" -> h.n
                          [] h.k = "bool" -> IF h.b THEN 1 ELSE 0))

\* DataFrame.sort_values(c) on a timestamp column: ascending and stable
\* (the first of the least rows is taken at each step)
RECURSIVE SortRows(_, _)
SortRows(data, c) ==
    IF data = <<>> THEN <<>>
    ELSE LET i == CHOOSE i \in 1..Len(data) :
                    /\ \A j \in 1..Len(data) : ~DateLess(data[j][c], data[i][c])
                    /\ \A j \in 1..(i - 1) : DateLess(data[i][c], data[j][c])
             others == [j \in 1..(Len(data) - 1) |->
                            IF j < i THEN data[j] ELSE data[j + 1]]
         IN <<data[i]>> \o SortRows(others, c)

\* the keys of groupby(c) in order of first appearance; rows whose key is
\* missing belong to no group (groupby's default dropna=True)
RECURSIVE GroupKeys(_, _)
GroupKeys(data, c) ==
    IF data = <<>> THEN <<>>
    ELSE LET key == Head(data)[c]
             Other(r) == r[c] # key
         IN IF IsNull(key) THEN GroupKeys(Tail(data), c)
            ELSE <<key>> \o GroupKeys(SelectSeq(Tail(data), Other), c)

\* df.groupby(by, as_index=False)[val].sum(): one row per distinct key,
\* the keys sorted (groupby's default sort=True)
GroupBySum(df, by, val) ==
    LET keys == GroupKeys(df.data, by)
        Cells(key) ==
            LET InGroup(r) == r[by] = key
                members == SelectSeq(df.data, InGroup)
            IN [i \in 1..Len(members) |-> members[i][val]]
        groups == [i \in 1..Len(keys) |->
                      (by :> keys[i]) @@ (val :> SumSkipNa(Cells(keys[i])))]
    IN [columns |-> {by, val}, data |-> SortRows(groups, by)]

\* the digits of a number with a comma before every group of three
RECURSIVE Thousands(_)
Thousands(ds) ==
    IF Len(ds) <= 3 THEN ds
    ELSE Thousands(SubSeq(ds, 1, Len(ds) - 3)) \o <<",">>
            \o SubSeq(ds, Len(ds) - 2, Len(ds))

\* "${:,.2f}".format(x) if pd.notnull(x) else "" for a whole amount x
FormatMoney(x) ==
    IF IsNull(x) THEN Str(<<>>)
    ELSE Str(<<"$">> \o (IF x.n < 0 THEN <<"-">> ELSE <<>>)
             \o Thousands(NatToChars(IF x.n < 0 THEN 0 - x.n ELSE x.n))
             \o <<".", "0", "0">>)

\* lines 83-85: agg_by_exp["Profit/Loss $"] = agg_by_exp["Profit/Loss"].apply(...)
AddMoneyColumn(df) ==
    [columns |-> df.columns \cup {"Profit/Loss $"},
     data |-> [i \in 1..Len(df.data) |->
                  df.data[i] @@ ("Profit/Loss $" :> FormatMoney(df.data[i]["Profit/Loss"]))]]

(* ---------- the simulated Notion database ---------- *)
Chars_2024_01_05 == <<"2", "0", "2", "4", "-", "0", "1", "-", "0", "5">>
Chars_2024_01_12 == <<"2", "0", "2", "4", "-", "0", "1", "-", "1", "2">>
Chars_2023_12_29 == <<"2", "0", "2", "3", "-", "1", "2", "-", "2", "9">>
Chars_2024_13_01 == <<"2", "0", "2", "4", "-", "1", "3", "-", "0", "1">>

DateProp(v) == [type |-> "date", date |-> v]
DateOn(s) == DateProp(Dict([start |-> Str(s), end |-> None]))
NumberProp(v) == [type |-> "number", number |-> v]
RichTextProp(s) ==
    [type |-> "rich_text", rich_text |-> List(<<Dict([plain_text |-> Str(s)])>>)]
TitleProp(s1, s2) ==
    [type |-> "title",
     title |-> List(<<Dict([plain_text |-> Str(s1)]), Dict([href |-> None]),
                      Dict([plain_text |-> Str(s2)])>>)]
FormulaProp(v) == [type |-> "formula", formula |-> Dict(v)]

Bag2(k1, p1, k2, p2) == (k1 :> p1) @@ (k2 :> p2)

\* the property bags a record of the simulated database can hold
RecordSet ==
    { Bag2("Expiration", DateOn(Chars_2024_01_05), "Profit/Loss", NumberProp(Num(100))),
      Bag2("Expiration", DateOn(Chars_2024_01_05), "Profit/Loss", NumberProp(Num(0 - 30))),
      Bag2("Expiration", DateOn(Chars_2024_01_12), "Profit/Loss", NumberProp(Num(50))),
      Bag2("Expiration", DateOn(Chars_2024_01_12), "Profit/Loss", NumberProp(None)),
      Bag2("Expiration", DateOn(Chars_2023_12_29),
           "Profit/Loss", RichTextProp(<<"$", "1", ",", "2", "5", "0">>)),
      Bag2("Expiration", RichTextProp(Chars_2024_13_01), "Profit/Loss", NumberProp(Num(7))),
      Bag2("Expiration", DateProp(None),
           "Profit/Loss", FormulaProp([type |-> Str(<<"n">>), number |-> Num(20)])),
      Bag2("expiration", DateOn(Chars_2024_01_05), "Profit/Loss", NumberProp(Num(5))),
      Bag2("Expiration", DateOn(Chars_2024_01_12), "Name", TitleProp(<<"a">>, <<"b">>)),
      << >> }

\* the three records of the worked example (2024-01-05, 100),
\* (2024-01-05, -30), (2024-01-12, 50)
ExampleRecords ==
    { Bag2("Expiration", DateOn(Chars_2024_01_05), "Profit/Loss", NumberProp(Num(100))),
      Bag2("Expiration", DateOn(Chars_2024_01_05), "Profit/Loss", NumberProp(Num(0 - 30))),
      Bag2("Expiration", DateOn(Chars_2024_01_12), "Profit/Loss", NumberProp(Num(50))) }

RECURSIVE SeqsUpTo(_, _)
SeqsUpTo(S, n) ==
    IF n = 0 THEN {<< >>}
    ELSE LET shorter == SeqsUpTo(S, n - 1)
         IN shorter \cup {Append(q, x) : q \in shorter, x \in S}

Databases == SeqsUpTo(RecordSet, MaxRecords) \cup SeqsUpTo(ExampleRecords, MaxLongRecords)

\* the inputs of the refresh cycle
DbIds == {Str(<< >>), Str(<<"d", "b">>)}
Tokens == {None, Str(<< >>), Str(<<"t">>)}

(* ---------- state ---------- *)
VARIABLES
    database,     \* the records the external API holds, in serving order
    db_id_input,  \* the sidebar's Database ID text
    NOTION_TOKEN, \* the credential read from the secrets
    pc,           \* where the refresh cycle is
    rows,         \* fetch_notion_df's accumulator
    cursor,       \* fetch_notion_df's continuation cursor
    resp,         \* the last response fetch_notion_df received
    pnl_df,       \* the fetched table
    agg_by_exp,   \* the aggregated table
    fig,          \* the chart handed to plotly
    ui,           \* the messages and charts shown in this cycle, in order
    queries,      \* queries issued to the API in this cycle
    emptyPages,   \* empty pages with has_more = true served in this cycle
    p,            \* a property handed to _get_prop_val
    ret           \* what _get_prop_val returned for p

vars == <<database, db_id_input, NOTION_TOKEN, pc, rows, cursor, resp, pnl_df,
          agg_by_exp, fig, ui, queries, emptyPages, p, ret>>

cycleVars == <<pc, rows, cursor, resp, pnl_df, agg_by_exp, fig, ui, queries, emptyPages>>

Cursor(at) == [k |-> "cursor", at |-> at]

Min(a, b) == IF a < b THEN a ELSE b

Offset(cur) == IF cur = None THEN 0 ELSE cur.at

\* the API's answer to query(start_cursor = cur): the next PageSize records
ApiPage(cur) ==
    LET from == Offset(cur)
        to == Min(from + PageSize, Len(database))
        more == to < Len(database)
    IN [results |-> [i \in 1..(to - from) |->
                        [id |-> from + i, properties |-> database[from + i]]],
        has_more |-> more,
        next_cursor |-> IF more THEN Cursor(to) ELSE None]

\* an API that answers with an empty page and says there is more
ApiEmptyPage(cur) ==
    [results |-> << >>, has_more |-> TRUE, next_cursor |-> Cursor(Offset(cur))]

ApiResponses ==
    {ApiPage(cursor)}
        \cup (IF emptyPages < MaxEmptyPages THEN {ApiEmptyPage(cursor)} ELSE {})

Init ==
    /\ database \in Databases
    /\ db_id_input \in DbIds
    /\ NOTION_TOKEN \in Tokens
    /\ pc = "Idle"
    /\ rows = << >>
    /\ cursor = None
    /\ resp = Unassigned
    /\ pnl_df = Unassigned
    /\ agg_by_exp = Unassigned
    /\ fig = Unassigned
    /\ ui = << >>
    /\ queries = 0
    /\ emptyPages = 0
    /\ p = NumberProp(None)
    /\ ret = Unassigned

(* ---------- the refresh cycle ---------- *)
\* a config guard that forgets the credential
StartIgnoringToken ==
    /\ pc = "Idle"
    /\ IF ~Truthy(db_id_input)
       THEN /\ ui' = Append(ui, "config_warning")
            /\ pc' = "ConfigMissing"
            /\ UNCHANGED <<rows, cursor>>
       ELSE /\ rows' = << >>
            /\ cursor' = None
            /\ pc' = "Fetching"
            /\ UNCHANGED ui
    /\ UNCHANGED <<database, db_id_input, NOTION_TOKEN, resp, pnl_df, agg_by_exp,
                   fig, queries, emptyPages, p, ret>>

\* lines 45-52 and the call of fetch_notion_df: the config guard
Start ==
    /\ pc = "Idle"
    /\ IF ~Truthy(db_id_input) \/ ~Truthy(NOTION_TOKEN)
       THEN /\ ui' = Append(ui, "config_warning")
            /\ pc' = "ConfigMissing"
            /\ UNCHANGED <<rows, cursor>>
       ELSE /\ rows' = << >>
            /\ cursor' = None
            /\ pc' = "Fetching"
            /\ UNCHANGED ui
    /\ UNCHANGED <<database, db_id_input, NOTION_TOKEN, resp, pnl_df, agg_by_exp,
                   fig, queries, emptyPages, p, ret>>

\* a page loop that forgets the rows of the earlier pages
FlattenPageOnly(acc, results) ==
    [i \in 1..Len(results) |->
        [name \in DOMAIN results[i].properties |->
            _get_prop_val(results[i].properties[name])]]

\* for page in resp["results"]: ... rows.append(row)
FlattenPage(acc, results) ==
    acc \o [i \in 1..Len(results) |->
              [name \in DOMAIN results[i].properties |->
                  _get_prop_val(results[i].properties[name])]]

\* a loop that also stops at an empty page
QueryStoppingOnEmpty(r) ==
    /\ pc = "Fetching"
    /\ queries' = queries + 1
    /\ emptyPages' = IF r.results = << >> /\ r.has_more
                     THEN emptyPages + 1 ELSE emptyPages
    /\ resp' = r
    /\ rows' = FlattenPage(rows, r.results)
    /\ IF ~r.has_more \/ r.results = << >>
       THEN /\ pnl_df' = DataFrame(rows')
            /\ pc' = "Fetched"
            /\ UNCHANGED cursor
       ELSE /\ cursor' = r.next_cursor
            /\ UNCHANGED <<pnl_df, pc>>
    /\ UNCHANGED <<database, db_id_input, NOTION_TOKEN, agg_by_exp, fig, ui, p, ret>>

\* one turn of the while loop that receives the response r
Query(r) ==
    /\ pc = "Fetching"
    /\ queries' = queries + 1
    /\ emptyPages' = IF r.results = << >> /\ r.has_more
                     THEN emptyPages + 1 ELSE emptyPages
    /\ resp' = r
    /\ rows' = FlattenPage(rows, r.results)
    /\ IF ~r.has_more
       THEN /\ pnl_df' = DataFrame(rows')
            /\ pc' = "Fetched"
            /\ UNCHANGED cursor
       ELSE /\ cursor' = r.next_cursor
            /\ UNCHANGED <<pnl_df, pc>>
    /\ UNCHANGED <<database, db_id_input, NOTION_TOKEN, agg_by_exp, fig, ui, p, ret>>

\* a failed query whose handler goes on with the rows fetched so far
QueryFailsKeepingRows ==
    /\ pc = "Fetching"
    /\ queries' = queries + 1
    /\ ui' = Append(ui, "fetch_error")
    /\ pnl_df' = DataFrame(rows)
    /\ pc' = "FetchFailed"
    /\ UNCHANGED <<database, db_id_input, NOTION_TOKEN, rows, cursor, resp,
                   agg_by_exp, fig, emptyPages, p, ret>>

\* notion.databases.query raises: the exception leaves fetch_notion_df
\* (whose rows and cursor die with its frame), pnl_df is not bound, and
\* lines 57-59 show the error and stop the script
QueryFails ==
    /\ pc = "Fetching"
    /\ queries' = queries + 1
    /\ ui' = Append(ui, "fetch_error")
    /\ pc' = "FetchFailed"
    /\ UNCHANGED <<database, db_id_input, NOTION_TOKEN, rows, cursor, resp,
                   pnl_df, agg_by_exp, fig, emptyPages, p, ret>>

\* an empty check that shows its message and goes on (no st.stop())
EmptyCheckNoStop ==
    /\ pc = "Fetched"
    /\ IF Empty(pnl_df)
       THEN ui' = Append(ui, "empty_info")
       ELSE UNCHANGED ui
    /\ pc' = "Coercing"
    /\ UNCHANGED <<database, db_id_input, NOTION_TOKEN, rows, cursor, resp,
                   pnl_df, agg_by_exp, fig, queries, emptyPages, p, ret>>

\* a script without the empty check
EmptyCheckSkipped ==
    /\ pc = "Fetched"
    /\ pc' = "Coercing"
    /\ UNCHANGED <<database, db_id_input, NOTION_TOKEN, rows, cursor, resp,
                   pnl_df, agg_by_exp, fig, ui, queries, emptyPages, p, ret>>

\* lines 61-63: if pnl_df.empty: st.info(...); st.stop()
EmptyCheck ==
    /\ pc = "Fetched"
    /\ IF Empty(pnl_df)
       THEN /\ ui' = Append(ui, "empty_info")
            /\ pc' = "EmptyDataset"
       ELSE /\ pc' = "Coercing"
            /\ UNCHANGED ui
    /\ UNCHANGED <<database, db_id_input, NOTION_TOKEN, rows, cursor, resp,
                   pnl_df, agg_by_exp, fig, queries, emptyPages, p, ret>>

\* a coercion that does not look whether the columns exist and makes the
\* absent ones: df[c] = f(df.get(c))
CoerceUnguarded ==
    /\ pc = "Coercing"
    /\ pnl_df' =
          [columns |-> pnl_df.columns \cup {"Expiration", "Profit/Loss"},
           data |-> [i \in 1..Len(pnl_df.data) |->
                ("Expiration" :> ToDatetime(IF "Expiration" \in pnl_df.columns
                                            THEN pnl_df.data[i]["Expiration"] ELSE NaN))
                @@ ("Profit/Loss" :> ParseMoney(IF "Profit/Loss" \in pnl_df.columns
                                                THEN pnl_df.data[i]["Profit/Loss"] ELSE NaN))
                @@ pnl_df.data[i]]]
    /\ pc' = "ColumnCheck"
    /\ UNCHANGED <<database, db_id_input, NOTION_TOKEN, rows, cursor, resp,
                   agg_by_exp, fig, ui, queries, emptyPages, p, ret>>

\* lines 66-72: the two columns are coerced where they exist
Coerce ==
    /\ pc = "Coercing"
    /\ LET df1 == IF "Expiration" \in pnl_df.columns
                  THEN CoerceExpiration(pnl_df)
                  ELSE pnl_df
       IN pnl_df' = IF "Profit/Loss" \in df1.columns /\ IsObjectDtype(df1, "Profit/Loss")
                    THEN CoerceProfitLoss(df1)
                    ELSE df1
    /\ pc' = "ColumnCheck"
    /\ UNCHANGED <<database, db_id_input, NOTION_TOKEN, rows, cursor, resp,
                   agg_by_exp, fig, ui, queries, emptyPages, p, ret>>

\* a dropna that rebinds the table: pnl_df = pnl_df.dropna(...)
TableAfterDropNaInPlace(df) == DropNa(df, "Expiration")

\* line 77: dropna returns a new frame, pnl_df itself keeps every row
TableAfterDropNa(df) == df

\* lines 76-80
AggByExp(df) == GroupBySum(DropNa(df, "Expiration"), "Expiration", "Profit/Loss")

\* lines 75-107: both columns exist: aggregate, format, annotate, plot
Aggregate ==
    /\ pc = "ColumnCheck"
    /\ {"Expiration", "Profit/Loss"} \subseteq pnl_df.columns
    /\ agg_by_exp' = AddMoneyColumn(AggByExp(pnl_df))
    /\ fig' = [data |-> [i \in 1..Len(agg_by_exp'.data) |->
                            [x |-> agg_by_exp'.data[i]["Expiration"],
                             y |-> agg_by_exp'.data[i]["Profit/Loss"]]],
               annotations |-> [i \in 1..Len(agg_by_exp'.data) |->
                            [x |-> agg_by_exp'.data[i]["Expiration"],
                             y |-> agg_by_exp'.data[i]["Profit/Loss"],
                             text |-> agg_by_exp'.data[i]["Profit/Loss $"]]]]
    /\ pnl_df' = TableAfterDropNa(pnl_df)
    /\ ui' = Append(ui, "chart")
    /\ pc' = "Aggregated"
    /\ UNCHANGED <<database, db_id_input, NOTION_TOKEN, rows, cursor, resp,
                   queries, emptyPages, p, ret>>

\* lines 108-109: a required column is absent
SchemaWarning ==
    /\ pc = "ColumnCheck"
    /\ ~({"Expiration", "Profit/Loss"} \subseteq pnl_df.columns)
    /\ ui' = Append(ui, "schema_warning")
    /\ pc' = "SchemaMismatch"
    /\ UNCHANGED <<database, db_id_input, NOTION_TOKEN, rows, cursor, resp,
                   pnl_df, agg_by_exp, fig, queries, emptyPages, p, ret>>

TerminalStates ==
    {"ConfigMissing", "FetchFailed", "EmptyDataset", "SchemaMismatch", "Aggregated"}

\* the user edits the Database ID or presses Refresh: the script reruns
\* from the top with nothing kept from the last run
Refresh ==
    /\ pc \in TerminalStates
    /\ db_id_input' \in DbIds
    /\ pc' = "Idle"
    /\ rows' = << >>
    /\ cursor' = None
    /\ resp' = Unassigned
    /\ pnl_df' = Unassigned
    /\ agg_by_exp' = Unassigned
    /\ fig' = Unassigned
    /\ ui' = << >>
    /\ queries' = 0
    /\ emptyPages' = 0
    /\ UNCHANGED <<database, NOTION_TOKEN, p, ret>>

Next ==
    \/ Start
    \/ \E r \in ApiResponses : Query(r)
    \/ QueryFails
    \/ EmptyCheck
    \/ Coerce
    \/ Aggregate
    \/ SchemaWarning
    \/ Refresh

Spec == Init /\ [][Next]_vars

\* the state of the refresh cycle in the words of the state machine
CycleState == IF pc \in {"Coercing", "ColumnCheck"} THEN "Fetched" ELSE pc

(* ---------- _get_prop_val on its own ---------- *)
\* what a formula result holds under each key when the key is populated
Populated(key) ==
    CASE key = "number" -> Num(7)
      [] key = "string" -> Str(<<"x">>)
      [] key = "date" -> Dict([start |-> Str(Chars_2024_01_05), end |-> None])
      [] key = "boolean" -> Bool(TRUE)

FormulaKeySet == {FormulaKeys[i] : i \in 1..Len(FormulaKeys)}

\* every formula result carrying any of the four keys, each null or populated
FormulaResults ==
    {("type" :> Str(<<"f">>))
        @@ [key \in carried |-> IF key \in nulls THEN None ELSE Populated(key)] :
        carried \in SUBSET FormulaKeySet, nulls \in SUBSET FormulaKeySet}

PropInputs ==
    {FormulaProp(v) : v \in FormulaResults}
        \cup {NumberProp(Num(3)), NumberProp(None),
              [type |-> "select", select |-> Dict([name |-> Str(<<"s">>)])],
              [type |-> "select", select |-> None],
              DateOn(Chars_2024_01_12), DateProp(None),
              RichTextProp(<<"r">>), TitleProp(<<"a">>, <<"b">>),
              [type |-> "rich_text", rich_text |-> List(<< >>)],
              [type |-> "checkbox", checkbox |-> Bool(FALSE)]}

InitProp ==
    /\ p \in PropInputs
    /\ ret = Unassigned
    /\ database = << >>
    /\ db_id_input = Str(<< >>)
    /\ NOTION_TOKEN = None
    /\ pc = "Idle"
    /\ rows = << >>
    /\ cursor = None
    /\ resp = Unassigned
    /\ pnl_df = Unassigned
    /\ agg_by_exp = Unassigned
    /\ fig = Unassigned
    /\ ui = << >>
    /\ queries = 0
    /\ emptyPages = 0

\* row[k] = _get_prop_val(val) for one property
Extract ==
    /\ ret = Unassigned
    /\ ret' = _get_prop_val(p)
    /\ UNCHANGED <<database, db_id_input, NOTION_TOKEN, p>>
    /\ UNCHANGED cycleVars

NextProp == Extract

SpecProp == InitProp /\ [][NextProp]_vars

(* ---------- properties ---------- *)
\* the row a record flattens to, column by column
RowOf(bag, row) ==
    /\ DOMAIN row = DOMAIN bag
    /\ \A name \in DOMAIN bag : row[name] = _get_prop_val(bag[name])

\* C1: when the API serves the N records in full pages, has_more true on
\* every page but the last, the fetch returns exactly N rows, row i being
\* the flattened i-th record served: none duplicated, none skipped.
C1_PaginationComplete ==
    (pc = "Fetched" /\ emptyPages = 0) =>
        /\ Len(rows) = Len(database)
        /\ \A i \in 1..Len(database) : RowOf(database[i], rows[i])
        /\ pnl_df = DataFrame(rows)
        /\ Len(pnl_df.data) = Len(database)

C1_Witness ==
    /\ pc = "Fetched"
    /\ emptyPages = 0
    /\ Len(database) = PageSize + 1
    /\ queries = 2
    /\ Len(pnl_df.data) = PageSize + 1
    /\ \A i \in 1..Len(rows) : DOMAIN rows[i] = {"Expiration", "Profit/Loss"}
    /\ rows[1]["Profit/Loss"] # rows[Len(rows)]["Profit/Loss"]

\* C2 as claimed: a response with an empty results list ends the
\* pagination whatever its has_more flag says, so the loop is never still
\* fetching after an empty page.
C2_EmptyPageEndsPagination ==
    ~(pc = "Fetching" /\ resp # Unassigned /\ resp.results = << >>)

\* C2 amended: the has_more flag alone ends the pagination. The loop
\* goes on (with the cursor the response returned) exactly while the last
\* response said has_more, it has returned exactly when the last response
\* said there is no more, and an empty page is no error and adds no row.
C2_HasMoreEndsPagination ==
    /\ (pc = "Fetching" /\ resp # Unassigned) =>
            /\ resp.has_more
            /\ cursor = resp.next_cursor
            /\ ui = << >>
    /\ pc = "Fetched" => (~resp.has_more /\ ui = << >>)
    /\ pc \in {"Fetching", "Fetched"} => Len(rows) <= Len(database)

C2_Witness ==
    /\ pc = "Fetched"
    /\ emptyPages > 0
    /\ Len(rows) = Len(database)
    /\ Len(rows) > 0

\* C3: a failed query, on the first page or a later one, ends the cycle in
\* FetchFailed with the error as the only output; the rows accumulated so
\* far reach no table, nothing is aggregated or plotted, and nothing
\* follows in that cycle.
C3_FailureAbortsFetch ==
    /\ [](pc = "FetchFailed" =>
            /\ ui = <<"fetch_error">>
            /\ pnl_df = Unassigned
            /\ agg_by_exp = Unassigned
            /\ fig = Unassigned)
    /\ [][pc = "FetchFailed" => pc' = "Idle"]_vars

C3_Witness ==
    /\ pc = "FetchFailed"
    /\ queries >= 2
    /\ Len(rows) > 0

Outcomes == {"SchemaMismatch", "EmptyDataset", "Aggregated"}

\* C4: a cycle moves Idle -> Fetching -> FetchFailed or Fetched, and from
\* Fetched to one of SchemaMismatch, EmptyDataset, Aggregated; an outcome
\* is left only by a new cycle from Idle, an outcome is reached from
\* Fetched only and shows exactly one output.
C4_CycleStateMachine ==
    /\ [][\/ CycleState = "Idle" /\ CycleState' \in {"Fetching", "ConfigMissing"}
          \/ CycleState = "Fetching" /\ CycleState' \in {"Fetching", "FetchFailed", "Fetched"}
          \/ CycleState = "Fetched" /\ CycleState' \in {"Fetched"} \cup Outcomes
          \/ CycleState \in TerminalStates /\ CycleState' = "Idle"]_vars
    /\ [](CycleState \in Outcomes => (Len(ui) = 1 /\ pnl_df # Unassigned))

C4_Witness ==
    /\ pc = "Aggregated"
    /\ queries >= 2
    /\ ui = <<"chart">>

\* C5: a fetched table of zero rows ends in EmptyDataset with the
\* informational message only, is never coerced or checked for its
\* columns, and no aggregation or chart is made of it.
C5_ZeroRowsIsEmptyDataset ==
    (pnl_df # Unassigned /\ Len(pnl_df.data) = 0) =>
        /\ pc \in {"Fetched", "EmptyDataset"}
        /\ pc = "EmptyDataset" => ui = <<"empty_info">>
        /\ agg_by_exp = Unassigned
        /\ fig = Unassigned

C5_Witness ==
    /\ pc = "EmptyDataset"
    /\ Len(pnl_df.data) = 0
    /\ Len(database) = 0
    /\ queries = 1

\* the table the fetch returned, before any coercion
FetchedTable == DataFrame(rows)

LacksRequiredColumn(df) == ~({"Expiration", "Profit/Loss"} \subseteq df.columns)

\* C6 as claimed: every fetched table lacking a required column, however
\* many rows it has, ends in SchemaMismatch.
C6_LackingColumnIsSchemaMismatch ==
    (pc \in Outcomes /\ LacksRequiredColumn(FetchedTable)) => pc = "SchemaMismatch"

\* C6 amended: every fetched table with at least one row and one column
\* that lacks a required column (by exact name) passes the coercion and
\* ends in SchemaMismatch with the guidance message only: nothing is
\* aggregated or plotted. (A table of no rows or no columns ends in
\* EmptyDataset.)
C6_NonEmptyLackingColumnIsSchemaMismatch ==
    /\ (pc \in Outcomes /\ LacksRequiredColumn(FetchedTable) /\ ~Empty(FetchedTable)) =>
            /\ pc = "SchemaMismatch"
            /\ ui = <<"schema_warning">>
            /\ agg_by_exp = Unassigned
            /\ fig = Unassigned
            /\ pnl_df.columns = FetchedTable.columns
    /\ (pc \in Outcomes /\ LacksRequiredColumn(FetchedTable) /\ Empty(FetchedTable)) =>
            pc = "EmptyDataset"

C6_Witness ==
    /\ pc = "SchemaMismatch"
    /\ "Expiration" \in pnl_df.columns
    /\ "Profit/Loss" \notin pnl_df.columns
    /\ Len(pnl_df.data) >= 2

\* the sum of f over a finite set of row numbers
RECURSIVE SumOver(_, _)
SumOver(S, f) ==
    IF S = {} THEN 0
    ELSE LET i == CHOOSE i \in S : TRUE IN f[i] + SumOver(S \ {i}, f)

\* the Profit/Loss of each row as a number, a missing value counting 0
Amounts(data) ==
    [i \in 1..Len(data) |->
        IF IsNull(data[i]["Profit/Loss"]) THEN 0 ELSE data[i]["Profit/Loss"].n]

\* the rows of the table that hold date dt
RowsOn(data, dt) == {j \in 1..Len(data) : data[j]["Expiration"] = dt}

\* C7: the aggregation has one point per distinct non-null Expiration of
\* the table, in strictly ascending date order, each point holding the
\* sum of the non-null Profit/Loss values of the rows on its date.
C7_AggregationCorrect ==
    pc = "Aggregated" =>
        LET T == pnl_df.data
            A == agg_by_exp.data
        IN /\ {A[i]["Expiration"] : i \in 1..Len(A)}
                = {T[j]["Expiration"] : j \in 1..Len(T)} \ {NaT}
           /\ \A i \in 1..Len(A) : \A j \in 1..Len(A) :
                i < j => DateLess(A[i]["Expiration"], A[j]["Expiration"])
           /\ \A i \in 1..Len(A) :
                A[i]["Profit/Loss"]
                    = Num(SumOver(RowsOn(T, A[i]["Expiration"]), Amounts(T)))
           /\ fig.data = [i \in 1..Len(A) |->
                            [x |-> A[i]["Expiration"], y |-> A[i]["Profit/Loss"]]]

\* a table served out of date order whose later date holds 50 and a
\* missing Profit/Loss
C7_Witness ==
    /\ pc = "Aggregated"
    /\ Len(pnl_df.data) = 3
    /\ pnl_df.data[1]["Expiration"] = Timestamp(2024, 1, 12)
    /\ \E j \in 1..3 : pnl_df.data[j]["Profit/Loss"] = NaN
    /\ Len(agg_by_exp.data) = 2
    /\ agg_by_exp.data[1]["Expiration"] = Timestamp(2024, 1, 5)
    /\ agg_by_exp.data[1]["Profit/Loss"] = Num(100)
    /\ agg_by_exp.data[2]["Expiration"] = Timestamp(2024, 1, 12)
    /\ agg_by_exp.data[2]["Profit/Loss"] = Num(50)

\* the value of each point of the aggregation
PointValues(A) == [i \in 1..Len(A) |-> A[i]["Profit/Loss"].n]

\* C8: a row whose Expiration is missing or does not parse makes no point
\* and adds to no sum of the aggregation, and the aggregation leaves the
\* raw table alone: it keeps every fetched row, in the fetched order.
C8_NullExpirationExcluded ==
    pc = "Aggregated" =>
        LET T == pnl_df.data
            F == FetchedTable.data
            A == agg_by_exp.data
            dated == {j \in 1..Len(T) : T[j]["Expiration"] # NaT}
        IN /\ Len(T) = Len(F)
           /\ \A j \in 1..Len(F) :
                /\ T[j]["Expiration"] = ToDatetime(F[j]["Expiration"])
                /\ \A c \in FetchedTable.columns \ {"Expiration", "Profit/Loss"} :
                        T[j][c] = F[j][c]
           /\ \A i \in 1..Len(A) : A[i]["Expiration"] # NaT
           /\ Len(A) = Cardinality({T[j]["Expiration"] : j \in dated})
           /\ SumOver(1..Len(A), PointValues(A)) = SumOver(dated, Amounts(T))

C8_Witness ==
    /\ pc = "Aggregated"
    /\ Len(agg_by_exp.data) = 1
    /\ Len(pnl_df.data) = 3
    /\ FetchedTable.data[1]["Expiration"] = Str(Chars_2024_13_01)
    /\ pnl_df.data[1]["Expiration"] = NaT
    /\ pnl_df.data[1]["Profit/Loss"] = Num(7)
    /\ FetchedTable.data[2]["Expiration"] = None
    /\ agg_by_exp.data[1]["Profit/Loss"] = Num(50)

\* C9 as claimed: a formula yields the first of number, string, date,
\* boolean that is populated (not null), also past an earlier null one,
\* and the raw result when it carries none of the four.
C9_FirstPopulatedWins ==
    (p.type = "formula" /\ ret # Unassigned) =>
        LET v == p.formula
            order == <<"number", "string", "date", "boolean">>
            Has(i) == order[i] \in DOMAIN v.d /\ v.d[order[i]] # None
        IN /\ \A i \in 1..4 :
                (Has(i) /\ \A j \in 1..(i - 1) : ~Has(j)) => ret = v.d[order[i]]
           /\ (\A i \in 1..4 : order[i] \notin DOMAIN v.d) => ret = v

\* C9 amended: a formula yields the value under the first of number,
\* string, date, boolean that the result carries as a key, null or not
\* (a null under an earlier key wins over a value under a later one), and
\* the raw result unmodified when it carries none of the four keys.
C9_FirstCarriedWins ==
    (p.type = "formula" /\ ret # Unassigned) =>
        LET v == p.formula
            order == <<"number", "string", "date", "boolean">>
            Has(i) == order[i] \in DOMAIN v.d
        IN /\ \A i \in 1..4 :
                (Has(i) /\ \A j \in 1..(i - 1) : ~Has(j)) => ret = v.d[order[i]]
           /\ (\A i \in 1..4 : ~Has(i)) => ret = v

C9_Witness ==
    /\ p.type = "formula"
    /\ DOMAIN p.formula.d = {"type", "number", "string"}
    /\ p.formula.d["number"] = None
    /\ p.formula.d["string"] = Str(<<"x">>)
    /\ ret = None

\* C10: a cycle run with an empty database identifier or a missing
\* credential ends with the configuration guidance only: no query is
\* issued, nothing is fetched, and no other state of the cycle is reached.
C10_MissingConfigStops ==
    (pc # "Idle" /\ (~Truthy(db_id_input) \/ ~Truthy(NOTION_TOKEN))) =>
        /\ pc = "ConfigMissing"
        /\ ui = <<"config_warning">>
        /\ queries = 0
        /\ resp = Unassigned
        /\ pnl_df = Unassigned
        /\ fig = Unassigned

C10_Witness ==
    /\ pc = "ConfigMissing"
    /\ Truthy(db_id_input)
    /\ NOTION_TOKEN = None
    /\ Len(database) > 0

====
